---- MODULE Spec2Model ----
(***************************************************************************)
(* Model of the concurrent capture pipeline of misteragent-voice-rust:     *)
(* the shared AudioState (ring buffer behind a mutex, two atomic flags),   *)
(* the cpal input-stream callback, the capture loop that polls is_halting, *)
(* and the command handlers start / stop / save / halt.                    *)
(*                                                                         *)
(* Samples are f32 values in the source.  Here a sample is the integer     *)
(* numerator n of the value n / Den, so 1.0 is Den and 2.0 is 2 * Den.     *)
(***************************************************************************)
EXTENDS Integers, Sequences, FiniteSets, TLC

\* ------------------------------------------------------------------ bounds
MaxSeconds == 1
MaxBlock == 2
MaxPushed == 3
FrameLength == 2
Den == 4
ConvMaxBlock == 2
ChunkMaxBlock == 5
ChunkMaxFrame == 3

\* ------------------------------------------------------- program constants
I16_MAX == 32767
I16_MIN == -32768

VARIABLES
    sample_rate,   \* config.sample_rate() of the input device
    seconds,       \* Args.seconds
    startup,       \* how main's set-up ended: "ok", "no_device", "no_output_dir", or
                   \* "panic" when the construction of the buffer panicked
    capture,       \* the capture_audio that runs: "main" or "capture_audio"
    server,        \* HttpServer: "none", "binding", "serving", "handler_panic", "bind_failed"
    capacity,      \* HeapRb capacity, fixed by AudioState::new
    storage,       \* HeapRb slots, index 0 .. capacity - 1
    rd,            \* HeapRb read index, modulo 2 * capacity
    wr,            \* HeapRb write index, modulo 2 * capacity
    is_recording,  \* AudioState.is_recording
    is_halting,    \* AudioState.is_halting
    lock,          \* owner of AudioState.buffer's mutex: "free", "callback", "save"
    frame_length,  \* porcupine.frame_length()
    stream,        \* "none" (not built), "playing" or "dropped"
    loop_pc,       \* capture_audio: "starting", "polling", "observed", "exited",
                   \* or "panicked" when the capture thread panicked while starting
    cb_pc,         \* callback: "idle", "lock", "push", "detect"
    cb_block,      \* data slice of the current (or last) callback
    cb_i,          \* next index of cb_block to push
    fed,           \* chunks handed to porcupine.process by the last callback
    det_log,       \* result of each porcupine.process call of the last callback
    warns,         \* scaled values the last callback logged a warning for
    sv_pc,         \* save handler: "idle", "lock", "copy", "write"
    sv_kind,       \* the save in flight: "save_audio", "save_audio_to_file", or "none"
    sv_snap,       \* buffer_contents of the last save that reached the copy
    sv_at,         \* history: Len(pushed) when sv_snap was taken, -1 before any
    sv_res,        \* how the last save ended: "none", "ok", "err" (Err returned), "panic"
    halt_pc,       \* halt_server: "idle", "rec_cleared", "sleeping"
    exited,        \* std::process::exit was called
    pushed,        \* history: every sample ever pushed, in order
    last_op        \* history: "start" / "stop" when the last step was that command
                   \* ("start_again" / "stop_again" when the flag already had the value),
                   \* "stream_error" when it was the stream's error callback

vars == <<sample_rate, seconds, startup, capture, server, capacity, storage, rd, wr, is_recording, is_halting, lock, frame_length,
          stream, loop_pc, cb_pc, cb_block, cb_i, fed, det_log, warns,
          sv_pc, sv_kind, sv_snap, sv_at, sv_res, halt_pc, exited, pushed, last_op>>

config == <<sample_rate, seconds, startup, capture, capacity>>
ring == <<storage, rd, wr>>
shared == <<is_recording, is_halting, storage, rd, wr>>
cbvars == <<cb_pc, cb_block, cb_i, fed, det_log, warns>>
hvars == <<sv_pc, sv_kind, sv_snap, sv_at, sv_res, halt_pc>>
svvars == <<sv_pc, sv_kind, sv_snap, sv_at, sv_res>>

Uninit == 0 - 1000000          \* a slot of the ring never written (MaybeUninit)
SampleRates == {1, 2}          \* sample rates of the device, in samples per second
NoRate == 0                    \* no device configuration was obtained
\* the two capture functions of the repository: main.rs capture_audio (push
\* only) and capture_audio.rs capture_audio (push, then wakeword detection)
CaptureKinds == {"main", "capture_audio"}
Samples == {0 - Den, 2 * Den}
WideSamples == (0 - 3 * Den) .. (3 * Den)
ChunkSamples == {0 - Den, Den}

RECURSIVE SeqsUpTo(_, _)
SeqsUpTo(S, n) ==
    IF n = 0 THEN {<<>>}
    ELSE LET shorter == SeqsUpTo(S, n - 1)
         IN  shorter \cup {Append(s, x) : s \in {t \in shorter : Len(t) = n - 1}, x \in S}

\* ------------------------------------------------------------ ring buffer
\* ringbuf::HeapRb: indices run modulo 2 * capacity, the slot is index % capacity.
OccupiedLen(cap, r, w) == (2 * cap + w - r) % (2 * cap)

\* is_full(): no vacant slot.  (IsFullOffByOne: faulty variant, full one slot early.)
IsFullOffByOne(cap, r, w) == OccupiedLen(cap, r, w) >= cap - 1
IsFull(cap, r, w) == OccupiedLen(cap, r, w) = cap

\* try_pop of the oldest element: advances the read index.
\* (PopIndexTwo: faulty variant, dropping two elements.)
PopIndexTwo(cap, r) == (r + 2) % (2 * cap)
PopIndex(cap, r) == (r + 1) % (2 * cap)

\* buffer.push_overwrite(sample): pop the oldest when full, then push.
\* Returns the new <<storage, rd, wr>>.
\* (PushDropNewest: faulty variant, a plain try_push that rejects when full.)
PushDropNewest(cap, st, r, w, s) ==
    IF IsFull(cap, r, w) THEN <<st, r, w>>
    ELSE <<[st EXCEPT ![w % cap] = s], r, (w + 1) % (2 * cap)>>
PushOverwrite(cap, st, r, w, s) ==
    LET r2 == IF IsFull(cap, r, w) THEN PopIndex(cap, r) ELSE r
    IN  <<[st EXCEPT ![w % cap] = s], r2, (w + 1) % (2 * cap)>>

\* buffer.iter().copied().collect(): the occupied slots, oldest first.
\* (IterCollectFromZero: faulty variant, reading the slots in storage order.)
IterCollectFromZero(cap, st, r, w) ==
    [k \in 1 .. OccupiedLen(cap, r, w) |-> st[(k - 1) % cap]]
IterCollect(cap, st, r, w) ==
    [k \in 1 .. OccupiedLen(cap, r, w) |-> st[(r + k - 1) % cap]]

\* the samples the buffer holds; none when no buffer was constructed
Contents == IF startup = "ok" THEN IterCollect(capacity, storage, rd, wr) ELSE <<>>

\* --------------------------------------------------------- f32 -> i16
\* x * i16::MAX as f32, as the exact rational  n * 32767 / Den  (for Den a power
\* of two and the small n used here the f32 product is exact).
\* (ScaledNumWrongScale: faulty variant, scaling by 32768.)
ScaledNumWrongScale(n) == n * (0 - I16_MIN)
ScaledNum(n) == n * I16_MAX

\* scaled > i16::MAX as f32 || scaled < i16::MIN as f32
OutOfRange(n) == ScaledNum(n) > I16_MAX * Den \/ ScaledNum(n) < I16_MIN * Den

\* truncation toward zero of a / b, b > 0
Trunc(a, b) == IF a >= 0 THEN a \div b ELSE 0 - ((0 - a) \div b)

\* `scaled as i16`: Rust float-to-int casts truncate toward zero and saturate.
\* (CastWrapping: faulty variant, a cast that wraps modulo 2^16.)
CastWrapping(a, b) == ((Trunc(a, b) - I16_MIN) % (2 * (I16_MAX + 1))) + I16_MIN
CastI16(a, b) ==
    LET t == Trunc(a, b)
    IN  IF t > I16_MAX THEN I16_MAX ELSE IF t < I16_MIN THEN I16_MIN ELSE t

ToI16(n) == CastI16(ScaledNum(n), Den)

\* data.iter().map(..).collect()
ConvertBlock(block) == [k \in 1 .. Len(block) |-> ToI16(block[k])]

\* the warnings logged while converting: one per out-of-range sample, in order
RECURSIVE Warnings(_)
Warnings(block) ==
    IF block = <<>> THEN <<>>
    ELSE (IF OutOfRange(Head(block)) THEN <<Head(block)>> ELSE <<>>) \o Warnings(Tail(block))

\* i16_samples.chunks(frame_length): consecutive slices, the last one possibly short
RECURSIVE Chunks(_, _)
Chunks(s, f) ==
    IF s = <<>> THEN <<>>
    ELSE IF Len(s) <= f THEN <<s>>
    ELSE <<SubSeq(s, 1, f)>> \o Chunks(SubSeq(s, f + 1, Len(s)), f)

\* the chunks that pass `if chunk.len() == frame_length`
\* (FullChunksPadded: faulty variant, the short last chunk zero-padded and kept.)
FullChunksPadded(s, f) ==
    LET cs == Chunks(s, f)
    IN  [k \in 1 .. Len(cs) |-> [j \in 1 .. f |-> IF j <= Len(cs[k]) THEN cs[k][j] ELSE 0]]
FullChunks(s, f) ==
    LET cs == Chunks(s, f)
        n == IF cs # <<>> /\ Len(cs[Len(cs)]) # f THEN Len(cs) - 1 ELSE Len(cs)
    IN  SubSeq(cs, 1, n)

\* porcupine.process: Ok(-1) no detection, Ok(0) keyword 0, or Err (coded -2)
ProcessResults == {0 - 2, 0 - 1, 0}

\* ------------------------------------------------------------------ Init
\* main: buffer_size = config.sample_rate().0 as usize * args.seconds as usize
BufferSize(rate, secs) == rate * secs

\* HeapRb::new(capacity): ringbuf asserts that the storage is not empty, so a
\* capacity of 0 panics in main before any thread is started.
\* (HeapRbNewUnchecked: faulty variant, accepting a capacity of 0.)
HeapRbNewUnchecked(cap) == "ok"
HeapRbNew(cap) == IF cap >= 1 THEN "ok" ELSE "panic"

\* main up to AudioState::new, in program order: get_input_config() panics
\* without an input device or a default config; create_dir_all(output_dir)
\* panics when the directory cannot be made; then HeapRb::new.
SetupOutcome(device, dir, cap) ==
    IF device = "none" THEN "no_device"
    ELSE IF dir = "fail" THEN "no_output_dir"
    ELSE HeapRbNew(cap)

\* the configuration and the buffer of AudioState::new(buffer_size, output_dir)
InitConfig ==
    /\ seconds \in 0 .. MaxSeconds
    /\ capture \in CaptureKinds
    /\ \E device \in {"ok", "none"}, dir \in {"ok", "fail"} :
          /\ sample_rate \in (IF device = "ok" THEN SampleRates ELSE {NoRate})
          /\ capacity = BufferSize(sample_rate, seconds)
          /\ startup = SetupOutcome(device, dir, capacity)
    /\ storage = [k \in (IF startup = "ok" THEN 0 .. capacity - 1 ELSE {}) |-> Uninit]
    /\ server = IF startup = "ok" THEN "binding" ELSE "none"
    /\ rd = 0
    /\ wr = 0

\* AudioState::new(capacity, output_dir) and the spawn of the capture thread
InitCommon ==
    /\ InitConfig
    /\ is_halting = FALSE
    /\ lock = "free"
    /\ stream = "none"
    /\ loop_pc = "starting"
    /\ cb_pc = "idle"
    /\ cb_block = <<>>
    /\ cb_i = 1
    /\ fed = <<>>
    /\ det_log = <<>>
    /\ warns = <<>>
    /\ sv_pc = "idle"
    /\ sv_kind = "none"
    /\ sv_snap = <<>>
    /\ sv_at = 0 - 1
    /\ sv_res = "none"
    /\ halt_pc = "idle"
    /\ exited = (startup # "ok")
    /\ pushed = <<>>

Init ==
    /\ InitCommon
    /\ is_recording = TRUE
    /\ frame_length = FrameLength
    /\ last_op = "init"

\* ------------------------------------------------------- audio callback
\* what follows the `if is_recording { .. }` block of the callback: nothing in
\* main.rs, the conversion and the detector in capture_audio.rs
AfterPush(kind) == IF kind = "main" THEN "idle" ELSE "detect"

\* move |data: &[f32], _| { if state.is_recording.load(..) { .. } .. }
CallbackBeginOnSkipsDetect(BlockSet) ==
    /\ ~exited
    /\ stream = "playing"
    /\ cb_pc = "idle"
    /\ \E block \in BlockSet :
          /\ Len(pushed) + Len(block) <= MaxPushed
          /\ cb_block' = block
    /\ cb_i' = 1
    /\ cb_pc' = IF is_recording THEN "lock" ELSE "idle"
    /\ fed' = <<>>
    /\ det_log' = <<>>
    /\ warns' = <<>>
    /\ last_op' = "other"
    /\ UNCHANGED <<config, server, ring, is_recording, is_halting, lock, frame_length,
                   stream, loop_pc, hvars, exited, pushed>>
CallbackBeginOn(BlockSet) ==
    /\ ~exited
    /\ stream = "playing"
    /\ cb_pc = "idle"
    /\ \E block \in BlockSet :
          /\ Len(pushed) + Len(block) <= MaxPushed
          /\ cb_block' = block
    /\ cb_i' = 1
    /\ cb_pc' = IF is_recording THEN "lock" ELSE AfterPush(capture)
    /\ fed' = <<>>
    /\ det_log' = <<>>
    /\ warns' = <<>>
    /\ last_op' = "other"
    /\ UNCHANGED <<config, server, ring, is_recording, is_halting, lock, frame_length,
                   stream, loop_pc, hvars, exited, pushed>>

CallbackBegin == CallbackBeginOn(SeqsUpTo(Samples, MaxBlock))

\* let mut buffer = state_clone.buffer.lock();
CallbackLock ==
    /\ ~exited
    /\ cb_pc = "lock"
    /\ lock = "free"
    /\ lock' = "callback"
    /\ cb_pc' = "push"
    /\ last_op' = "other"
    /\ UNCHANGED <<config, server, ring, is_recording, is_halting, frame_length, stream, loop_pc,
                   cb_block, cb_i, fed, det_log, warns, hvars, exited, pushed>>

\* for &sample in data { buffer.push_overwrite(sample); }   (one iteration)
CallbackPush ==
    /\ ~exited
    /\ cb_pc = "push"
    /\ cb_i <= Len(cb_block)
    /\ LET after == PushOverwrite(capacity, storage, rd, wr, cb_block[cb_i])
       IN  /\ storage' = after[1]
           /\ rd' = after[2]
           /\ wr' = after[3]
    /\ pushed' = Append(pushed, cb_block[cb_i])
    /\ cb_i' = cb_i + 1
    /\ last_op' = "other"
    /\ UNCHANGED <<config, server, is_recording, is_halting, lock, frame_length, stream, loop_pc,
                   cb_pc, cb_block, fed, det_log, warns, hvars, exited>>

\* end of the `if` block: the MutexGuard is dropped
CallbackUnlock ==
    /\ ~exited
    /\ cb_pc = "push"
    /\ cb_i > Len(cb_block)
    /\ lock' = "free"
    /\ cb_pc' = AfterPush(capture)
    /\ last_op' = "other"
    /\ UNCHANGED <<config, server, ring, is_recording, is_halting, frame_length, stream, loop_pc,
                   cb_block, cb_i, fed, det_log, warns, hvars, exited, pushed>>

\* conversion to i16, then porcupine.process on every full chunk
\* (CallbackDetectUnwrap: faulty variant, where an Err of process is unwrapped
\* and the panic ends the stream.)
CallbackDetectUnwrap ==
    /\ ~exited
    /\ cb_pc = "detect"
    /\ LET chunks == FullChunks(ConvertBlock(cb_block), frame_length)
       IN  /\ fed' = chunks
           /\ det_log' \in [1 .. Len(chunks) -> ProcessResults]
    /\ stream' = IF \E k \in DOMAIN det_log' : det_log'[k] = 0 - 2
                 THEN "dropped" ELSE stream
    /\ warns' = Warnings(cb_block)
    /\ cb_pc' = "idle"
    /\ last_op' = "other"
    /\ UNCHANGED <<config, server, ring, is_recording, is_halting, lock, frame_length,
                   loop_pc, cb_block, cb_i, hvars, exited, pushed>>
CallbackDetect ==
    /\ ~exited
    /\ cb_pc = "detect"
    /\ LET chunks == FullChunks(ConvertBlock(cb_block), frame_length)
       IN  /\ fed' = chunks
           /\ det_log' \in [1 .. Len(chunks) -> ProcessResults]
    /\ warns' = Warnings(cb_block)
    /\ cb_pc' = "idle"
    /\ last_op' = "other"
    /\ UNCHANGED <<config, server, ring, is_recording, is_halting, lock, frame_length, stream,
                   loop_pc, cb_block, cb_i, hvars, exited, pushed>>

\* ---------------------------------------------------------- capture loop
\* How the start of capture_audio can end.  Each step before the poll loop is
\* an .expect (or a panic!): the default input device and its config,
\* get_wakeword_listener() (capture_audio.rs only), build_input_stream, play.
StartOutcomes(kind) ==
    {"ok", "no_device", "build_failed", "play_failed"}
        \cup (IF kind = "capture_audio" THEN {"no_listener"} ELSE {})

\* capture_audio up to stream.play(): on success the stream plays and the poll
\* loop runs.  A failure panics the capture thread only: the process goes on
\* without a poll loop; a stream that was built is dropped by the unwinding.
CaptureStart ==
    /\ ~exited
    /\ loop_pc = "starting"
    /\ \E outcome \in StartOutcomes(capture) :
          /\ loop_pc' = IF outcome = "ok" THEN "polling" ELSE "panicked"
          /\ stream' = IF outcome = "ok" THEN "playing"
                       ELSE IF outcome = "play_failed" THEN "dropped"
                       ELSE "none"
    /\ last_op' = "other"
    /\ UNCHANGED <<config, server, ring, is_recording, is_halting, lock, frame_length,
                   cbvars, hvars, exited, pushed>>

\* while !state.is_halting.load(..) { sleep(100ms).await }
\* (LoopPollIgnoresFlag: faulty variant, leaving the loop whatever the flag is.)
LoopPollIgnoresFlag ==
    /\ ~exited
    /\ loop_pc = "polling"
    /\ loop_pc' = "observed"
    /\ last_op' = "other"
    /\ UNCHANGED <<config, server, ring, is_recording, is_halting, lock, frame_length, stream,
                   cbvars, hvars, exited, pushed>>
LoopPoll ==
    /\ ~exited
    /\ loop_pc = "polling"
    /\ loop_pc' = IF is_halting THEN "observed" ELSE "polling"
    /\ last_op' = "other"
    /\ UNCHANGED <<config, server, ring, is_recording, is_halting, lock, frame_length, stream,
                   cbvars, hvars, exited, pushed>>

\* drop(stream): stops the stream; returns once no callback is running
\* (LoopDropStreamNoJoin: faulty variant, not waiting for a running callback.)
LoopDropStreamNoJoin ==
    /\ ~exited
    /\ loop_pc = "observed"
    /\ stream' = "dropped"
    /\ loop_pc' = "exited"
    /\ last_op' = "other"
    /\ UNCHANGED <<config, server, ring, is_recording, is_halting, lock, frame_length,
                   cbvars, hvars, exited, pushed>>
LoopDropStream ==
    /\ ~exited
    /\ loop_pc = "observed"
    /\ cb_pc = "idle"
    /\ stream' = "dropped"
    /\ loop_pc' = "exited"
    /\ last_op' = "other"
    /\ UNCHANGED <<config, server, ring, is_recording, is_halting, lock, frame_length,
                   cbvars, hvars, exited, pushed>>

\* |err| log::error!("Error in audio stream: {}", err): the stream's error
\* callback only logs.
StreamError ==
    /\ ~exited
    /\ stream = "playing"
    /\ last_op' = "stream_error"
    /\ UNCHANGED <<config, server, ring, is_recording, is_halting, lock, frame_length, stream,
                   loop_pc, cbvars, hvars, exited, pushed>>

\* ------------------------------------------------------ command handlers
\* start_recording: state.is_recording.store(true, ..)
\* (faulty variants: one that also clears is_halting, one that toggles the flag.)
start_recording_resets_halting ==
    /\ ~exited
    /\ server = "serving"
    /\ is_recording' = TRUE
    /\ is_halting' = FALSE
    /\ last_op' = IF is_recording THEN "start_again" ELSE "start"
    /\ UNCHANGED <<config, server, ring, lock, frame_length, stream, loop_pc,
                   cbvars, hvars, exited, pushed>>
start_recording_toggle ==
    /\ ~exited
    /\ server = "serving"
    /\ is_recording' = ~is_recording
    /\ last_op' = IF is_recording THEN "start_again" ELSE "start"
    /\ UNCHANGED <<config, server, ring, is_halting, lock, frame_length, stream, loop_pc,
                   cbvars, hvars, exited, pushed>>
start_recording ==
    /\ ~exited
    /\ server = "serving"
    /\ is_recording' = TRUE
    /\ last_op' = IF is_recording THEN "start_again" ELSE "start"
    /\ UNCHANGED <<config, server, ring, is_halting, lock, frame_length, stream, loop_pc,
                   cbvars, hvars, exited, pushed>>

\* stop_recording: state.is_recording.store(false, ..)
\* (stop_recording_clears: faulty variant, also emptying the buffer.)
stop_recording_clears ==
    /\ ~exited
    /\ server = "serving"
    /\ is_recording' = FALSE
    /\ rd' = wr
    /\ last_op' = IF is_recording THEN "stop" ELSE "stop_again"
    /\ UNCHANGED <<config, server, storage, wr, is_halting, lock, frame_length, stream, loop_pc,
                   cbvars, hvars, exited, pushed>>
stop_recording ==
    /\ ~exited
    /\ server = "serving"
    /\ is_recording' = FALSE
    /\ last_op' = IF is_recording THEN "stop" ELSE "stop_again"
    /\ UNCHANGED <<config, server, ring, is_halting, lock, frame_length, stream, loop_pc,
                   cbvars, hvars, exited, pushed>>

\* How a failed I/O step of a save ends: main.rs save_audio calls .expect(..)
\* on every fallible step, save_audio_to_file propagates with `?` / map_err.
FailStatus(kind) == IF kind = "save_audio" THEN "panic" ELSE "err"

SaveKinds == {"save_audio", "save_audio_to_file"}

\* create_dir_all(parent) and hound::WavWriter::create(filepath, spec)
SaveOpen ==
    /\ ~exited
    /\ server = "serving"
    /\ sv_pc = "idle"
    /\ \E kind \in SaveKinds, outcome \in {"ok", "mkdir", "create"} :
          /\ sv_kind' = IF outcome = "ok" THEN kind ELSE "none"
          /\ sv_pc' = IF outcome = "ok" THEN "lock" ELSE "idle"
          /\ sv_res' = IF outcome = "ok" THEN "none" ELSE FailStatus(kind)
    /\ last_op' = "other"
    /\ UNCHANGED <<config, server, ring, is_recording, is_halting, lock, frame_length, stream,
                   loop_pc, cbvars, sv_snap, sv_at, halt_pc, exited, pushed>>

\* let buffer = state.buffer.lock();
\* (SaveLockNoWait: faulty variant, reading the buffer without waiting for the lock.)
SaveLockNoWait ==
    /\ ~exited
    /\ sv_pc = "lock"
    /\ lock' = "save"
    /\ sv_pc' = "copy"
    /\ last_op' = "other"
    /\ UNCHANGED <<config, server, ring, is_recording, is_halting, frame_length, stream, loop_pc,
                   cbvars, sv_kind, sv_snap, sv_at, sv_res, halt_pc, exited, pushed>>
SaveLock ==
    /\ ~exited
    /\ sv_pc = "lock"
    /\ lock = "free"
    /\ lock' = "save"
    /\ sv_pc' = "copy"
    /\ last_op' = "other"
    /\ UNCHANGED <<config, server, ring, is_recording, is_halting, frame_length, stream, loop_pc,
                   cbvars, sv_kind, sv_snap, sv_at, sv_res, halt_pc, exited, pushed>>

\* buffer.iter().copied().collect(), then the guard is dropped
\* (SaveCopyPopIter: faulty variant, draining the buffer with pop_iter().)
SaveCopyPopIter ==
    /\ ~exited
    /\ sv_pc = "copy"
    /\ sv_snap' = Contents
    /\ sv_at' = Len(pushed)
    /\ rd' = wr
    /\ lock' = "free"
    /\ sv_pc' = "write"
    /\ last_op' = "other"
    /\ UNCHANGED <<config, server, storage, wr, is_recording, is_halting, frame_length, stream,
                   loop_pc, cbvars, sv_kind, sv_res, halt_pc, exited, pushed>>
\* (SaveCopyKeepsLock: faulty variant, holding the guard across the file writes.)
SaveCopyKeepsLock ==
    /\ ~exited
    /\ sv_pc = "copy"
    /\ sv_snap' = Contents
    /\ sv_at' = Len(pushed)
    /\ sv_pc' = "write"
    /\ last_op' = "other"
    /\ UNCHANGED <<config, server, ring, is_recording, is_halting, lock, frame_length, stream,
                   loop_pc, cbvars, sv_kind, sv_res, halt_pc, exited, pushed>>
SaveCopy ==
    /\ ~exited
    /\ sv_pc = "copy"
    /\ sv_snap' = Contents
    /\ sv_at' = Len(pushed)
    /\ lock' = "free"
    /\ sv_pc' = "write"
    /\ last_op' = "other"
    /\ UNCHANGED <<config, server, ring, is_recording, is_halting, frame_length, stream, loop_pc,
                   cbvars, sv_kind, sv_res, halt_pc, exited, pushed>>

\* writer.write_sample for every sample, then writer.finalize()
SaveWrite ==
    /\ ~exited
    /\ sv_pc = "write"
    /\ \E outcome \in {"ok", "write", "finalize"} :
          sv_res' = IF outcome = "ok" THEN "ok" ELSE FailStatus(sv_kind)
    /\ sv_kind' = "none"
    /\ sv_pc' = "idle"
    /\ last_op' = "other"
    /\ UNCHANGED <<config, server, ring, is_recording, is_halting, lock, frame_length, stream,
                   loop_pc, cbvars, sv_snap, sv_at, halt_pc, exited, pushed>>

\* halt_server: state.is_recording.store(false, ..)
HaltClearRecording ==
    /\ ~exited
    /\ server = "serving"
    /\ halt_pc = "idle"
    /\ is_recording' = FALSE
    /\ halt_pc' = "rec_cleared"
    /\ last_op' = "other"
    /\ UNCHANGED <<config, server, ring, is_halting, lock, frame_length, stream, loop_pc,
                   cbvars, svvars, exited, pushed>>

\* halt_server: state.is_halting.store(true, ..)
HaltSetHalting ==
    /\ ~exited
    /\ halt_pc = "rec_cleared"
    /\ is_halting' = TRUE
    /\ halt_pc' = "sleeping"
    /\ last_op' = "other"
    /\ UNCHANGED <<config, server, ring, is_recording, lock, frame_length, stream, loop_pc,
                   cbvars, svvars, exited, pushed>>

\* halt_server: sleep(200ms).await; std::process::exit(0)
\* (HaltExitWaitsForSave: faulty variant, exiting only when no save is in flight.)
HaltExitWaitsForSave ==
    /\ ~exited
    /\ halt_pc = "sleeping"
    /\ sv_pc = "idle"
    /\ exited' = TRUE
    /\ halt_pc' = "done"
    /\ last_op' = "other"
    /\ UNCHANGED <<config, server, ring, is_recording, is_halting, lock, frame_length, stream,
                   loop_pc, cbvars, svvars, pushed>>
HaltExit ==
    /\ ~exited
    /\ halt_pc = "sleeping"
    /\ exited' = TRUE
    /\ halt_pc' = "done"
    /\ last_op' = "other"
    /\ UNCHANGED <<config, server, ring, is_recording, is_halting, lock, frame_length, stream,
                   loop_pc, cbvars, svvars, pushed>>

\* main after the capture thread is spawned: ctrlc::set_handler(..).expect(..),
\* then HttpServer::new(..).bind("127.0.0.1:8000")?: a failed bind makes main
\* return Err, which ends the process; otherwise the routes are served.
ServerBind ==
    /\ ~exited
    /\ server = "binding"
    /\ \E outcome \in {"serving", "handler_panic", "bind_failed"} :
          /\ server' = outcome
          /\ exited' = (outcome # "serving")
    /\ last_op' = "other"
    /\ UNCHANGED <<config, ring, is_recording, is_halting, lock, frame_length, stream,
                   loop_pc, cbvars, hvars, pushed>>

\* ctrlc handler: is_recording.store(false, ..); std::process::exit(0)
CtrlC ==
    /\ ~exited
    /\ is_recording' = FALSE
    /\ exited' = TRUE
    /\ last_op' = "other"
    /\ UNCHANGED <<config, server, ring, is_halting, lock, frame_length, stream, loop_pc,
                   cbvars, hvars, pushed>>

\* The program of main.  The capture thread runs the capture function chosen
\* in Init (capture): with "main" a callback never reaches CallbackDetect.
Next ==
    \/ CaptureStart
    \/ CallbackBegin
    \/ CallbackLock
    \/ CallbackPush
    \/ CallbackUnlock
    \/ CallbackDetect
    \/ LoopPoll
    \/ LoopDropStream
    \/ StreamError
    \/ ServerBind
    \/ start_recording
    \/ stop_recording
    \/ SaveOpen
    \/ SaveLock
    \/ SaveCopy
    \/ SaveWrite
    \/ HaltClearRecording
    \/ HaltSetHalting
    \/ HaltExit
    \/ CtrlC

Spec == Init /\ [][Next]_vars

\* The halt handler is a future on an actix worker: once it has run its first
\* store, the second store, the 200 ms tokio sleep and std::process::exit(0)
\* are executed.  Nothing makes a halt request arrive.
SpecFair == Spec /\ WF_vars(HaltSetHalting) /\ WF_vars(HaltExit)

\* ------------------------------------------- the detector path on its own
\* A callback that has just read is_recording = false (recording was stopped)
\* and now converts its block and feeds the detector.  The block is drawn from
\* a fine grid of sample values and from lengths of up to several frames.
DetectBlocks ==
    SeqsUpTo(WideSamples, ConvMaxBlock) \cup SeqsUpTo(ChunkSamples, ChunkMaxBlock)

InitDetect ==
    /\ InitConfig
    /\ startup = "ok"
    /\ capture = "capture_audio"
    /\ is_recording = FALSE
    /\ is_halting = FALSE
    /\ lock = "free"
    /\ frame_length \in 1 .. ChunkMaxFrame
    /\ stream = "playing"
    /\ loop_pc = "polling"
    /\ cb_pc = "detect"
    /\ cb_block \in DetectBlocks
    /\ cb_i = 1
    /\ fed = <<>>
    /\ det_log = <<>>
    /\ warns = <<>>
    /\ sv_pc = "idle"
    /\ sv_kind = "none"
    /\ sv_snap = <<>>
    /\ sv_at = 0 - 1
    /\ sv_res = "none"
    /\ halt_pc = "idle"
    /\ exited = FALSE
    /\ pushed = <<>>
    /\ last_op = "other"

SpecDetect == InitDetect /\ [][CallbackDetect]_vars

\* ================================================================ claims

\* C1: once more than `capacity` samples have been pushed, the buffer holds
\* exactly the `capacity` most recently pushed samples, oldest first.
BufferHoldsMostRecent ==
    Len(pushed) > capacity =>
        Contents = SubSeq(pushed, Len(pushed) - capacity + 1, Len(pushed))

BufferOverwrittenWitness ==
    /\ capacity = 2
    /\ Len(pushed) = 3
    /\ pushed[1] # pushed[3]

\* C2: while at most `capacity` samples have been pushed into the initially
\* empty buffer, the buffer holds, and a save's snapshot returns, exactly the
\* pushed samples in push order.
NoLossUntilFull ==
    /\ Len(pushed) <= capacity => Contents = pushed
    /\ (sv_at >= 0 /\ sv_at <= capacity) => sv_snap = SubSeq(pushed, 1, sv_at)

NoLossWitness ==
    /\ capacity = 2
    /\ sv_at = 2
    /\ Len(pushed) = 2
    /\ sv_snap = pushed
    /\ pushed[1] # pushed[2]

\* C3: the copy step of a save leaves the ring buffer as it was, the snapshot
\* is the buffer's contents oldest first, and a save that copies with no push
\* since the previous save's copy reads the same sequence as that save.
SaveNonDestructive ==
    [][(sv_pc = "copy" /\ sv_pc' = "write") =>
          /\ storage' = storage /\ rd' = rd /\ wr' = wr
          /\ IterCollect(capacity', storage', rd', wr') = Contents
          /\ sv_snap' = Contents
          /\ (sv_at = Len(pushed) => sv_snap' = sv_snap)]_vars

SecondSaveWitness ==
    /\ sv_pc = "copy"
    /\ sv_at = Len(pushed)
    /\ Len(sv_snap) = 2

\* C4: a start step sets is_recording and changes nothing else of the shared
\* state, and changes nothing at all of it when is_recording was already true
\* (so a second start in a row is a no-op); the same for stop with false.
StartStopIdempotent ==
    [][/\ last_op' \in {"start", "start_again"} =>
             /\ is_recording' = TRUE
             /\ is_halting' = is_halting /\ storage' = storage /\ rd' = rd /\ wr' = wr
             /\ (is_recording => shared' = shared)
             /\ (last_op \in {"start", "start_again"} => shared' = shared)
       /\ last_op' \in {"stop", "stop_again"} =>
             /\ is_recording' = FALSE
             /\ is_halting' = is_halting /\ storage' = storage /\ rd' = rd /\ wr' = wr
             /\ (~is_recording => shared' = shared)
             /\ (last_op \in {"stop", "stop_again"} => shared' = shared)]_vars

StartAgainWitness ==
    /\ last_op = "start_again"
    /\ pushed # <<>>
    /\ ~exited

\* C5: is_halting is false at construction, only halt_server's store changes
\* it, and once true it stays true under every step.
IsHaltingMonotonic ==
    /\ is_halting = FALSE
    /\ [][/\ is_halting => is_halting'
          /\ is_halting' # is_halting =>
                (halt_pc = "rec_cleared" /\ halt_pc' = "sleeping")]_vars

HaltingThenStartedWitness ==
    /\ is_halting
    /\ is_recording
    /\ loop_pc = "exited"
    /\ ~exited

\* C6 as stated: once the capture loop's poll has observed is_halting, no
\* further sample is pushed.
NoPushAfterObserved ==
    [][(loop_pc \in {"observed", "exited"}) => (pushed' = pushed)]_vars

\* C6 amended: once the capture loop has dropped the stream, no further sample
\* is pushed and the buffer no longer changes.
NoPushAfterStreamDropped ==
    [][stream = "dropped" =>
          (pushed' = pushed /\ storage' = storage /\ rd' = rd /\ wr' = wr)]_vars

DroppedWhileRecordingWitness ==
    /\ stream = "dropped"
    /\ loop_pc = "exited"
    /\ is_recording
    /\ ~exited
    /\ Len(pushed) < MaxPushed

\* C7: for a block of n samples and frame length F the detector is called
\* exactly n div F times, the c-th call with the F converted samples at block
\* positions (c-1)F+1 .. cF; the n mod F trailing samples are fed to no call.
ChunkingExact ==
    cb_pc = "idle" =>
        LET F == frame_length
            k == Len(cb_block) \div F
        IN  /\ Len(fed) = k
            /\ Len(det_log) = k
            /\ \A c \in 1 .. k :
                  /\ Len(fed[c]) = F
                  /\ \A j \in 1 .. F : fed[c][j] = ToI16(cb_block[(c - 1) * F + j])

RemainderDiscardedWitness ==
    /\ cb_pc = "idle"
    /\ frame_length = 2
    /\ Len(cb_block) = 5
    /\ Len(fed) = 2

\* the converted value the detector received for block position p
FedAt(p) == fed[((p - 1) \div frame_length) + 1][((p - 1) % frame_length) + 1]
FedPositions == 1 .. (Len(fed) * frame_length)

\* C8 as stated: 1.0 converts to 32767 and -1.0 converts to -32768.
ConversionBoundaryMinMax ==
    cb_pc = "idle" =>
        \A p \in FedPositions :
            /\ cb_block[p] = Den => FedAt(p) = I16_MAX
            /\ cb_block[p] = 0 - Den => FedAt(p) = I16_MIN

\* C8 amended: 1.0 converts to 32767 and -1.0 converts to -32767, the negated
\* maximum, one above the minimum; neither wraps around.
ConversionBoundarySymmetric ==
    cb_pc = "idle" =>
        \A p \in FedPositions :
            /\ cb_block[p] = Den => FedAt(p) = I16_MAX
            /\ cb_block[p] = 0 - Den => FedAt(p) = 0 - I16_MAX

PlusMinusOneWitness ==
    /\ cb_pc = "idle"
    /\ frame_length = 1
    /\ cb_block = <<Den, 0 - Den>>
    /\ Len(fed) = 2

\* C9: a sample whose scaled value is above 32767 is converted to 32767, one
\* whose scaled value is below -32768 to -32768, each with one warning logged;
\* a sample in [-1.0, 1.0] logs no warning.
ClampAndWarn ==
    cb_pc = "idle" =>
        LET Over(n) == n * I16_MAX > I16_MAX * Den
            Under(n) == n * I16_MAX < I16_MIN * Den
            Warned(n) == \E i \in 1 .. Len(warns) : warns[i] = n
        IN  /\ \A p \in 1 .. Len(cb_block) :
                  /\ (Over(cb_block[p]) \/ Under(cb_block[p])) => Warned(cb_block[p])
                  /\ (cb_block[p] >= 0 - Den /\ cb_block[p] <= Den) => ~Warned(cb_block[p])
            /\ Len(warns) =
                  Cardinality({p \in 1 .. Len(cb_block) :
                                  Over(cb_block[p]) \/ Under(cb_block[p])})
            /\ \A p \in FedPositions :
                  /\ Over(cb_block[p]) => FedAt(p) = I16_MAX
                  /\ Under(cb_block[p]) => FedAt(p) = I16_MIN

ClampedWitness ==
    /\ cb_pc = "idle"
    /\ frame_length = 1
    /\ cb_block = <<2 * Den, 0 - 2 * Den>>
    /\ Len(warns) = 2
    /\ Len(fed) = 2

\* C10: a save whose directory creation, file creation, sample write or
\* finalize fails ends by returning an error to its caller, never by a panic.
SaveFailureReturnsErr ==
    sv_res \in {"err", "panic"} => sv_res = "err"

\* ---- C11
\* A halt handler is never blocked (while the server serves, each of its steps
\* is enabled whatever the save handler, the callback and the loop are doing).
HaltNeverWaits ==
    /\ (halt_pc = "idle" /\ server = "serving" /\ ~exited) => ENABLED HaltClearRecording
    /\ (halt_pc = "rec_cleared" /\ ~exited) => ENABLED HaltSetHalting
    /\ (halt_pc = "sleeping" /\ ~exited) => ENABLED HaltExit
    /\ halt_pc \in {"sleeping", "done"} => is_halting
    /\ halt_pc = "done" => exited

\* The handler's steps come in the order: is_recording := false, then
\* is_halting := true, then exit; it has no other step and no failure exit.
HaltStepOrder ==
    halt_pc' # halt_pc =>
        \/ halt_pc = "idle" /\ halt_pc' = "rec_cleared" /\ ~is_recording' /\ ~exited'
        \/ halt_pc = "rec_cleared" /\ halt_pc' = "sleeping" /\ is_halting' /\ ~exited'
        \/ halt_pc = "sleeping" /\ halt_pc' = "done" /\ exited'

\* C11: every halt invocation, under any interleaving, sets is_recording to
\* false, then is_halting to true, and eventually the process terminates; halt
\* never fails and never waits on an in-flight save or on the capture loop.
HaltAlwaysTerminates ==
    /\ []HaltNeverWaits
    /\ [][HaltStepOrder]_vars
    /\ (halt_pc # "idle") ~> exited

\* halt exited the process while a save held the lock in its copy-out and
\* the capture loop had not yet observed the flag
HaltDuringSaveWitness ==
    /\ exited
    /\ halt_pc = "done"
    /\ sv_pc = "copy"
    /\ lock = "save"
    /\ loop_pc = "polling"
    /\ is_halting
    /\ ~is_recording

\* ---- C12
\* C12: with a full buffer of capacity C, a save, then m <= C further recorded
\* samples, then a second save: the second snapshot has C samples, its first
\* C - m samples are the last C - m samples of the first snapshot, and both
\* saves have a sample count of C.  (sv_snap is the first snapshot, sv_at the
\* number of samples recorded when it was taken; the step is the second copy.)
SecondSnapshotOverlaps ==
    (/\ sv_pc = "copy" /\ sv_pc' = "write"
     /\ sv_at >= capacity
     /\ Len(pushed) - sv_at <= capacity)
    => LET m == Len(pushed) - sv_at
       IN  /\ Len(sv_snap) = capacity
           /\ Len(sv_snap') = capacity
           /\ SubSeq(sv_snap', 1, capacity - m) = SubSeq(sv_snap, m + 1, capacity)
           /\ SubSeq(sv_snap', capacity - m + 1, capacity)
                  = SubSeq(pushed, sv_at + 1, Len(pushed))
SnapshotsOverlap == [][SecondSnapshotOverlaps]_vars

\* a second save is about to copy a full buffer of capacity 2 that received
\* one sample, different from the one it replaced, since the first save
OverlapWitness ==
    /\ sv_pc = "copy"
    /\ capacity = 2
    /\ sv_at = 2
    /\ Len(sv_snap) = 2
    /\ Len(pushed) = 3
    /\ pushed[3] # pushed[2]

\* ---- C13
\* C13: the buffer lock excludes the callback's push and the save's copy-out
\* from each other and is held only during the push or the copy-out: a save
\* handler creating the directory or the file (before "lock"), or writing and
\* finalizing (at "write"), does not hold it, so a callback waiting for the
\* lock can take it whenever no copy-out is in progress.
LockHeldOnlyForPushOrCopy ==
    /\ lock \in {"free", "callback", "save"}
    /\ (lock = "callback") <=> (cb_pc = "push")
    /\ (lock = "save") <=> (sv_pc = "copy")
    /\ ~(cb_pc = "push" /\ sv_pc = "copy")
    /\ (cb_pc = "lock" /\ sv_pc # "copy" /\ ~exited) => ENABLED CallbackLock

\* the callback pushes under the lock while a save is writing its file
PushDuringFileWriteWitness ==
    /\ sv_pc = "write"
    /\ cb_pc = "push"
    /\ lock = "callback"
    /\ cb_i = 2

\* ---- C14
\* a step of a command handler: start, stop, a step of save or a step of halt
CommandStep ==
    \/ last_op' \in {"start", "start_again", "stop", "stop_again"}
    \/ sv_pc' # sv_pc
    \/ sv_res' # sv_res
    \/ halt_pc' # halt_pc

\* C14: start, stop, save and halt leave the buffer unchanged (stop does not
\* clear it); the only step that changes the buffer is a push of the capture
\* callback, made while it holds the lock; save only reads it.
OnlyCallbackWritesBuffer ==
    [][/\ CommandStep => (ring' = ring /\ Contents' = Contents)
       /\ ring' # ring => (/\ cb_pc = "push"
                           /\ lock = "callback"
                           /\ cb_i' = cb_i + 1
                           /\ ~CommandStep)]_vars

\* stop was just executed on a buffer holding two samples, which it still holds
StopKeepsBufferWitness ==
    /\ last_op = "stop"
    /\ capacity = 2
    /\ Len(Contents) = 2
    /\ Contents = SubSeq(pushed, Len(pushed) - 1, Len(pushed))

\* ---- C15
\* the capacity is the product of the sample rate and the buffered seconds,
\* and a buffer exists only with a capacity of at least 1: a capacity of 0
\* ends the process at construction, before anything is recorded or saved
CapacityFromConfig ==
    /\ capacity = sample_rate * seconds
    /\ startup \in {"ok", "no_device", "no_output_dir", "panic"}
    /\ startup = "ok" => (capacity >= 1 /\ DOMAIN storage = 0 .. capacity - 1)
    /\ startup = "panic" => capacity = 0
    /\ capacity = 0 => startup # "ok"
    /\ startup # "ok" => (/\ DOMAIN storage = {}
                          /\ server = "none"
                          /\ exited
                          /\ pushed = <<>>
                          /\ sv_pc = "idle" /\ sv_res = "none"
                          /\ cb_pc = "idle")

\* C15: the buffer's capacity is fixed at construction to sample_rate *
\* buffer_seconds and never changes afterwards; construction enforces
\* capacity >= 1: a configuration giving capacity 0 is rejected and no
\* zero-capacity buffer is produced.
CapacityFixedAndPositive ==
    /\ []CapacityFromConfig
    /\ [][capacity' = capacity /\ DOMAIN storage' = DOMAIN storage]_vars

\* --seconds 0: the construction of the buffer panicked
ZeroCapacityRejectedWitness ==
    /\ seconds = 0
    /\ sample_rate = 2
    /\ capacity = 0
    /\ startup = "panic"
    /\ exited

\* ---- C16
\* the steps of one callback invocation of capture_audio.rs: its first step
\* reads is_recording and goes to the push only if it read true; its last
\* step is the detection on the whole block; a callback that read false (cb_i
\* still 1) has not changed the buffer when it detects
CallbackGateStep ==
    /\ (cb_pc = "idle" /\ cbvars' # cbvars /\ capture = "capture_audio")
          => (/\ cb_pc' = IF is_recording THEN "lock" ELSE "detect"
              /\ cb_i' = 1
              /\ ring' = ring)
    /\ (cb_pc # "idle" /\ cb_pc' = "idle" /\ capture = "capture_audio")
          => (/\ cb_pc = "detect"
              /\ fed' = FullChunks(ConvertBlock(cb_block), frame_length)
              /\ Len(det_log') = Len(fed')
              /\ ring' = ring
              /\ cb_i \in {1, Len(cb_block) + 1})
    /\ (cb_pc' = "push" /\ cb_pc # "push") => cb_pc = "lock"
    /\ (cb_pc' = "lock" /\ cb_pc # "lock") => (cb_pc = "idle" /\ is_recording)
    /\ (cb_pc \in {"lock", "detect"} /\ cb_i = 1 /\ cb_pc' # "push") => ring' = ring

\* C16: on every invocation of the callback of capture_audio.rs the block is
\* converted and fed to the detector whatever is_recording is; samples are pushed only if the callback
\* read is_recording = true: a callback that read false leaves the buffer
\* unchanged and still performs detection on the block.
DetectAlwaysPushOnlyWhenRecording == [][CallbackGateStep]_vars

\* a callback that read is_recording = false has finished: its block of two
\* samples was fed to the detector as one chunk and nothing was ever pushed
DetectedWithoutPushWitness ==
    /\ capture = "capture_audio"
    /\ cb_pc = "idle"
    /\ cb_i = 1
    /\ Len(cb_block) = 2
    /\ Len(fed) = 1
    /\ Len(det_log) = 1
    /\ pushed = <<>>
    /\ Contents = <<>>

\* ---- C17
\* C17 (as stated): in every execution the stream-release step of the capture
\* loop precedes halt's process exit, i.e. when halt has exited the process
\* the stream has been released.
ReleasePrecedesHaltExit ==
    (exited /\ halt_pc = "done") => stream = "dropped"

\* C17 (amended): the capture loop releases the stream only after its poll
\* has observed is_halting, which halt has set before starting its grace
\* period; the release and the loop's exit are one step.  halt's exit does not
\* wait for them.  (The only other way a stream ends is the panic of a capture
\* thread that fails to start it; no poll loop exists then.)
ReleaseOnlyAfterHaltingObserved ==
    /\ loop_pc \in {"observed", "exited"} => (is_halting /\ halt_pc \in {"sleeping", "done"})
    /\ loop_pc = "exited" => stream = "dropped"
    /\ stream = "dropped" => loop_pc \in {"exited", "panicked"}
    /\ loop_pc = "panicked" => stream # "playing"
    /\ (loop_pc = "observed" /\ cb_pc = "idle" /\ ~exited) => ENABLED LoopDropStream

\* the loop released the stream and then halt exited the process
ReleasedBeforeExitWitness ==
    /\ stream = "dropped"
    /\ loop_pc = "exited"
    /\ exited
    /\ halt_pc = "done"

\* ---- C18
\* the loop, once capture_audio has started the stream, is Running while it
\* polls and Halted once it has released the stream (a capture thread that
\* panics while starting never has a loop); it leaves Running only by a poll
\* that reads is_halting = true;
\* the stream's error callback, a detection step (whatever process returned)
\* and the start, stop and save handlers leave the loop and the stream alone
LoopTransitionStep ==
    /\ loop_pc' # loop_pc
          => \/ loop_pc = "starting" /\ loop_pc' = "polling" /\ stream' = "playing"
             \/ loop_pc = "starting" /\ loop_pc' = "panicked" /\ stream' # "playing"
             \/ loop_pc = "polling" /\ loop_pc' = "observed" /\ is_halting
             \/ loop_pc = "observed" /\ loop_pc' = "exited" /\ stream' = "dropped"
    /\ stream' # stream
          => \/ loop_pc = "starting" /\ loop_pc' # loop_pc
             \/ loop_pc = "observed" /\ loop_pc' = "exited"
    /\ (\/ last_op' \in {"stream_error", "start", "start_again", "stop", "stop_again"}
        \/ sv_pc' # sv_pc
        \/ sv_res' # sv_res
        \/ cb_pc = "detect" /\ cb_pc' = "idle")
          => (loop_pc' = loop_pc /\ stream' = stream)
    /\ (cb_pc = "detect" /\ cb_pc' = "idle") => Len(det_log') = Len(fed')

\* while the loop is Running the stream plays and the next callback can start
LoopRunningState ==
    /\ loop_pc \in {"starting", "panicked", "polling", "observed", "exited"}
    /\ (loop_pc \in {"polling", "observed"}) <=> (stream = "playing")
    /\ (loop_pc = "polling" /\ ~is_halting /\ ~exited) => ENABLED LoopPoll
    /\ (stream = "playing" /\ cb_pc = "idle" /\ ~exited) => ENABLED CallbackBegin

\* C18: the capture loop has two states, Running and Halted, and the only
\* transition is Running -> Halted, taken when the poll reads is_halting =
\* true; an asynchronous stream error or a failed detector chunk is logged and
\* leaves the loop Running (later chunks and callbacks are still processed);
\* no start, stop or save command moves it to Halted or back.
LoopStopsOnlyOnHalting ==
    /\ []LoopRunningState
    /\ [][LoopTransitionStep]_vars

\* the detector failed on a chunk, then the stream reported an error, and
\* the loop is still Running with the stream playing
RunningAfterErrorsWitness ==
    /\ last_op = "stream_error"
    /\ det_log = <<0 - 2>>
    /\ loop_pc = "polling"
    /\ stream = "playing"
    /\ ~is_halting
    /\ ~exited

\* ---- C19
\* the callback has pushed some but not all of the samples of its block
PartialBlock ==
    /\ cb_pc = "push"
    /\ cb_i > 1
    /\ cb_i <= Len(cb_block)

\* the last n elements of a sequence (all of it when it is shorter)
LastN(s, n) == SubSeq(s, IF Len(s) > n THEN Len(s) - n + 1 ELSE 1, Len(s))

\* C19: every snapshot taken by save equals the buffer contents at a block
\* boundary: when save copies, no callback is part-way through pushing its
\* block, and the snapshot is the last capacity samples pushed up to there
\* (older samples of a block can be missing only by overwrite).
SnapshotAtBlockBoundary ==
    [][(sv_pc = "copy" /\ sv_pc' = "write")
          => (/\ ~PartialBlock
              /\ cb_pc # "push"
              /\ sv_snap' = LastN(pushed, capacity)
              /\ sv_at' = Len(pushed))]_vars

\* a save took its snapshot after a whole block and before the callback that
\* now holds a block of two samples has pushed any of them
SnapshotBetweenBlocksWitness ==
    /\ sv_pc = "write"
    /\ sv_at = Len(pushed)
    /\ Len(sv_snap) >= 1
    /\ cb_pc = "lock"
    /\ cb_i = 1
    /\ Len(cb_block) = 2

\* ---- C20
\* the buffer and every snapshot hold between 0 and capacity samples
HeldWithinCapacity ==
    /\ Len(Contents) >= 0
    /\ Len(Contents) <= capacity
    /\ Len(sv_snap) <= capacity
    /\ Len(sv_snap) <= Len(Contents)

\* C20: the number of samples held in the buffer is always between 0 and
\* capacity and never decreases over start, stop, save, halt and callback
\* steps, so the sample counts of successive saves are non-decreasing and at
\* most capacity.
HeldCountMonotonic ==
    /\ []HeldWithinCapacity
    /\ [][/\ Len(Contents') >= Len(Contents)
          /\ Len(sv_snap') >= Len(sv_snap)]_vars

\* a save copied a full buffer of capacity 2 after its oldest sample had been
\* overwritten
FullSnapshotAfterOverwriteWitness ==
    /\ sv_pc = "write"
    /\ capacity = 2
    /\ sv_at = 3
    /\ Len(sv_snap) = 2
    /\ Len(Contents) = 2

====
